---------------------------- MODULE Spec2Model ----------------------------
(***************************************************************************)
(* Model of the browser-side map renderer (class AzureMapsRenderer,        *)
(* src/unnamed/part_001) and of the query glue (handleUserQuery,           *)
(* src/docs/frontend_integration.js).                                      *)
(*                                                                         *)
(* Encoding of JavaScript values                                           *)
(*   numbers      integers; gradient stops and opacities are in hundredths *)
(*                (0.25 is 25); +Infinity / -Infinity are the integers     *)
(*                Infinity / NegInfinity, strictly outside every           *)
(*                coordinate of the model                                  *)
(*   null         object id 0 (every constructed object gets a fresh id    *)
(*                >= 1)                                                    *)
(*   undefined    a record field defined |-> FALSE, or the empty string    *)
(*                for a missing url                                        *)
(*   exceptions   the field thrown of an operation's result: "none" or the *)
(*                name of the error that reaches the caller                *)
(***************************************************************************)
EXTENDS Integers, Sequences, FiniteSets, TLC

(***************************************************************************)
(* Bounds of the model.                                                    *)
(***************************************************************************)
\* longest longitude / latitude array of a weather_data payload
MaxLen == 2
\* coordinates range over -1 .. MaxCoord
MaxCoord == 1
\* objects (layers, data sources) one renderer constructs
MaxObjects == 2
\* objects one renderer constructs in a run of SpecBounds and SpecCorners
MaxOverlays == 1
\* calls of handleUserQuery in a run of SpecQuery
MaxQueries == 2
\* 'ready' callbacks pending at a time: a renderer is initialised again only
\* while fewer are pending
MaxPending == 1
\* 'ready' callbacks pending at a time in a run of SpecInit
MaxOverlap == 2
\* calls of searchLocation pending at a time
MaxSearches == 1
\* objects one renderer constructs in a run of SpecInit
MaxReadyObjects == 3

Coord == (-1) .. MaxCoord
Infinity == MaxCoord + 1
NegInfinity == -Infinity

SeqsUpTo(S, n) == UNION {[1..k -> S] : k \in 0..n}

(***************************************************************************)
(* Inputs.                                                                 *)
(***************************************************************************)
OverlayUrl == "https://blob/overlay.png"
GeoTiffUrl == "https://blob/overlay.tif"
Urls == {"", OverlayUrl}

\* weather_data: { longitude: float[], latitude: float[] }, or undefined
UndefinedWeatherData == [defined |-> FALSE, longitude |-> <<>>, latitude |-> <<>>]
WeatherData(lons, lats) == [defined |-> TRUE, longitude |-> lons, latitude |-> lats]
AllWeatherData ==
    {UndefinedWeatherData} \cup
    {WeatherData(lo, la) : lo \in SeqsUpTo(Coord, MaxLen), la \in SeqsUpTo(Coord, MaxLen)}
\* sample payloads: none, one point, two points
WeatherSamples ==
    {UndefinedWeatherData, WeatherData(<<0>>, <<1>>), WeatherData(<<-1, 1>>, <<0, 1>>)}
\* the payload Spec runs on: one point
SpecSamples == {WeatherData(<<0>>, <<1>>)}

Schemes == {"temperature", "precipitation", "drought", "default",
            "unknown-scheme-xyz", "undefined"}
LegendSchemes == {"precipitation", "unknown-scheme-xyz"}
ValueRanges == {<<0, 45>>, <<10, 5>>}

SamplePoint == [longitude |-> 0, latitude |-> 1, value |-> 7, title |-> "p"]
Legend == [defined |-> TRUE, title |-> "Precipitation", date |-> "2023-01",
           region |-> "Florida"]
UndefinedLegend == [defined |-> FALSE, title |-> "", date |-> "", region |-> ""]

\* map_config of a response
MapConfigs ==
    [center : {<<0, 1>>}, zoom : {6}, style : {"satellite"},
     data_points : {<<>>, <<SamplePoint>>}, legend : {Legend},
     color_scheme : {"temperature"}, value_range : {<<0, 45>>}]
    \cup
    [center : {<<0, 1>>}, zoom : {6}, style : {"satellite"},
     data_points : {<<SamplePoint>>}, legend : {Legend},
     color_scheme : {"unknown-scheme-xyz"}, value_range : {<<10, 5>>}]

(***************************************************************************)
(* Results of operations: the environment after the call and the error     *)
(* that reaches the caller.                                                *)
(***************************************************************************)
Ok(e) == [env |-> e, thrown |-> "none"]
Throw(e, err) == [env |-> e, thrown |-> err]
\* statement sequencing: a throw skips the rest of the block
Then(res, F(_)) == IF res.thrown # "none" THEN res ELSE F(res.env)

(***************************************************************************)
(* Math.min(...xs) and Math.max(...xs): a left fold from +Infinity         *)
(* (-Infinity); the empty argument list gives the seed.                    *)
(***************************************************************************)
RECURSIVE MathMinFrom(_, _)
MathMinFrom(acc, xs) ==
    IF xs = <<>> THEN acc
    ELSE MathMinFrom(IF Head(xs) < acc THEN Head(xs) ELSE acc, Tail(xs))

RECURSIVE MathMaxFrom(_, _)
MathMaxFrom(acc, xs) ==
    IF xs = <<>> THEN acc
    ELSE MathMaxFrom(IF Head(xs) > acc THEN Head(xs) ELSE acc, Tail(xs))

MathMinFirst(xs) == IF xs = <<>> THEN Infinity ELSE xs[1]
MathMin(xs) == MathMinFrom(Infinity, xs)

MathMax(xs) == MathMaxFrom(NegInfinity, xs)

IsFinite(x) == x # Infinity /\ x # NegInfinity


(***************************************************************************)
(* getColorGradient: the expression array handed to the heat-map layer, a  *)
(* three-element header followed by alternating stop, color.               *)
(***************************************************************************)
GradientHeader == <<"interpolate", <<"linear">>, <<"heatmap-density">> >>

TemperatureGradient ==
    GradientHeader \o
    <<0, "rgba(0, 0, 255, 0)", 20, "rgba(0, 100, 255, 1)", 40, "rgba(0, 255, 255, 1)",
      60, "rgba(255, 255, 0, 1)", 80, "rgba(255, 100, 0, 1)", 100, "rgba(255, 0, 0, 1)">>

PrecipitationGradient ==
    GradientHeader \o
    <<0, "rgba(255, 255, 255, 0)", 20, "rgba(200, 200, 255, 1)", 40, "rgba(100, 150, 255, 1)",
      60, "rgba(0, 100, 255, 1)", 80, "rgba(0, 50, 200, 1)", 100, "rgba(0, 0, 150, 1)">>

DroughtGradient ==
    GradientHeader \o
    <<0, "rgba(139, 0, 0, 1)", 25, "rgba(255, 0, 0, 1)", 40, "rgba(255, 165, 0, 1)",
      50, "rgba(255, 255, 255, 0)", 60, "rgba(173, 216, 230, 1)", 75, "rgba(0, 191, 255, 1)",
      100, "rgba(0, 0, 255, 1)">>

DefaultGradient ==
    GradientHeader \o
    <<0, "rgba(0, 0, 255, 0)", 50, "rgba(0, 255, 0, 1)", 100, "rgba(255, 0, 0, 1)">>

\* a lookup without the default branch: an unmatched name yields undefined
getColorGradientNoFallback(colorScheme, valueRange) ==
    CASE colorScheme = "temperature" -> TemperatureGradient
      [] colorScheme = "precipitation" -> PrecipitationGradient
      [] colorScheme = "drought" -> DroughtGradient
      [] colorScheme = "default" -> DefaultGradient
      [] OTHER -> <<>>

\* a table whose last stop was left at 0.8
getColorGradientShortStops(colorScheme, valueRange) ==
    CASE colorScheme = "temperature" -> SubSeq(TemperatureGradient, 1, 13)
      [] colorScheme = "precipitation" -> PrecipitationGradient
      [] colorScheme = "drought" -> DroughtGradient
      [] OTHER -> DefaultGradient

getColorGradient(colorScheme, valueRange) ==
    CASE colorScheme = "temperature" -> TemperatureGradient
      [] colorScheme = "precipitation" -> PrecipitationGradient
      [] colorScheme = "drought" -> DroughtGradient
      [] OTHER -> DefaultGradient

\* the (stop, color) pairs of a gradient expression, in order
Stops(g) == [i \in 1 .. ((Len(g) - 3) \div 2) |-> <<g[2 * i + 2], g[2 * i + 3]>>]

(***************************************************************************)
(* The methods class AzureMapsRenderer defines (its whole body).           *)
(***************************************************************************)
ClassMethods ==
    {"constructor", "initializeMap", "initializeWeatherMap", "addDataSources", "addLayers",
     "addPNGOverlay", "addGeoTIFFOverlay", "addInteractivePoints", "addWeatherData",
     "addWeatherPopups", "getColorGradient", "addLegend", "addPopups", "updateMap",
     "updateWeatherData", "addSearchBox", "searchLocation", "fitToData"}

(***************************************************************************)
(* Objects of the map SDK, as far as the renderer uses them.               *)
(***************************************************************************)
NoCamera == [center |-> <<>>, zoom |-> 0, bounds |-> <<>>, padding |-> 0]
NullMap == [exists |-> FALSE, ready |-> FALSE, layers |-> <<>>, sources |-> <<>>,
            camera |-> NoCamera, legends |-> <<>>, readyHandlers |-> <<>>]

Layer(id, type, source, url, coordinates, opacity, color) ==
    [id |-> id, type |-> type, source |-> source, url |-> url,
     coordinates |-> coordinates, opacity |-> opacity, color |-> color]

\* the renderer after its constructor
NewRenderer == [dataSources |-> {}, heatMapLayer |-> 0, imageLayer |-> 0, pointLayer |-> 0]

NewEnv == [this |-> NewRenderer, map |-> NullMap, nextId |-> 1]

LayerIds(m) == {m.layers[i].id : i \in 1 .. Len(m.layers)}
ImageLayersOf(m) == {i \in 1 .. Len(m.layers) : m.layers[i].type = "image"}
RemoveLayer(ls, id) == SelectSeq(ls, LAMBDA l : l.id # id)

\* the corner order of an image layer
CornersSwapped(west, south, east, north) ==
    << <<west, north>>, <<east, north>>, <<west, south>>, <<east, south>> >>
Corners(west, south, east, north) ==
    << <<west, north>>, <<east, north>>, <<east, south>>, <<west, south>> >>

(***************************************************************************)
(* addPNGOverlay(overlayUrl, weatherData).  Everything runs inside         *)
(* try { } catch { console.error }, so no error reaches the caller.  sdk   *)
(* is what the map SDK does with the layer: "ok", or, for bounds that are  *)
(* not finite, a throw from layers.add or from setCamera.                  *)
(***************************************************************************)
SdkOutcomes(west, south, east, north) ==
    IF IsFinite(west) /\ IsFinite(south) /\ IsFinite(east) /\ IsFinite(north)
    THEN {"ok"}
    ELSE {"ok", "layers.add throws", "setCamera throws"}

\* the bounds with the latitude extremes exchanged
ComputeBoundsNorthSouth(lons, lats) ==
    [west |-> MathMin(lons), east |-> MathMax(lons),
     south |-> MathMax(lats), north |-> MathMin(lats)]

\* bounds that widen a zero-width or zero-height box by one unit
ComputeBoundsPadded(lons, lats) ==
    LET w == MathMin(lons)
        e == MathMax(lons)
        s == MathMin(lats)
        n == MathMax(lats)
    IN  [west |-> w, east |-> IF e = w /\ IsFinite(e) THEN e + 1 ELSE e,
         south |-> s, north |-> IF n = s /\ IsFinite(n) THEN n + 1 ELSE n]

ComputeBounds(lons, lats) ==
    [west |-> MathMin(lons), east |-> MathMax(lons),
     south |-> MathMin(lats), north |-> MathMax(lats)]

addPNGOverlay(e, overlayUrl, wd, sdk) ==
    IF ~wd.defined THEN Ok(e)
    ELSE
      LET b == ComputeBounds(wd.longitude, wd.latitude)
          west == b.west
          east == b.east
          south == b.south
          north == b.north
          layer == Layer(e.nextId, "image", 0, overlayUrl,
                         Corners(west, south, east, north), 90, <<>>)
          e1 == [e EXCEPT !.this.imageLayer = layer.id, !.nextId = @ + 1]
          e2 == [e1 EXCEPT !.map.layers = Append(@, layer)]
          e3 == [e2 EXCEPT !.map.camera.bounds = <<west, south, east, north>>,
                           !.map.camera.padding = 50]
      IN  IF ~e.map.exists \/ sdk = "layers.add throws" THEN Ok(e1)
          ELSE IF sdk = "setCamera throws" THEN Ok(e2)
          ELSE Ok(e3)

(***************************************************************************)
(* addGeoTIFFOverlay(geotiffUrl, bounds), bounds = [west, south, east,     *)
(* north], also inside try/catch.                                          *)
(***************************************************************************)
addGeoTIFFOverlay(e, geotiffUrl, bounds) ==
    LET layer == Layer(e.nextId, "image", 0, geotiffUrl,
                       Corners(bounds[1], bounds[2], bounds[3], bounds[4]), 70, <<>>)
        e1 == [e EXCEPT !.this.imageLayer = layer.id, !.nextId = @ + 1]
    IN  IF ~e.map.exists THEN Ok(e1)
        ELSE Ok([e1 EXCEPT !.map.layers = Append(@, layer)])

(***************************************************************************)
(* addInteractivePoints(config)                                            *)
(***************************************************************************)
addInteractivePoints(e, config) ==
    IF config.data_points = <<>> THEN Ok(e)
    ELSE IF ~e.map.exists THEN Throw([e EXCEPT !.nextId = @ + 1], "TypeError")
    ELSE
      LET src == e.nextId
          layer == Layer(e.nextId + 1, "symbol", src, "", <<>>, 10, <<>>)
      IN  Ok([e EXCEPT !.nextId = @ + 2,
                       !.map.sources = Append(@, src),
                       !.this.pointLayer = layer.id,
                       !.map.layers = Append(@, layer)])


(***************************************************************************)
(* Number.prototype.toFixed(1) on an integer value: the decimal digits     *)
(* followed by ".0".                                                       *)
(***************************************************************************)
Digit == <<"0", "1", "2", "3", "4", "5", "6", "7", "8", "9">>

RECURSIVE NatToString(_)
NatToString(n) ==
    IF n < 10 THEN Digit[n + 1] ELSE NatToString(n \div 10) \o Digit[(n % 10) + 1]

toFixed1(n) == (IF n < 0 THEN "-" \o NatToString(-n) ELSE NatToString(n)) \o ".0"

(***************************************************************************)
(* addLegend(legend, colorScheme, valueRange).  The template literal is    *)
(* evaluated left to right: legend.title, this.getLegendGradient(...),     *)
(* valueRange[0].toFixed(1); then the panel is appended to the map         *)
(* container.  The class defines no method getLegendGradient, so the call  *)
(* this.getLegendGradient(colorScheme) is a call of undefined.             *)
(***************************************************************************)
\* the swatch a legend would carry: the stops of the scheme's gradient
getLegendGradient(colorScheme) == Stops(getColorGradient(colorScheme, <<>>))

LegendPanel(legend, colorScheme, valueRange) ==
    [id |-> "weather-legend", title |-> legend.title,
     subtitle |-> <<legend.date, legend.region>>,
     swatch |-> getLegendGradient(colorScheme),
     labels |-> <<toFixed1(valueRange[1]), toFixed1(valueRange[2])>>]

addLegend(e, legend, colorScheme, valueRange) ==
    IF ~legend.defined THEN Throw(e, "TypeError")
    ELSE IF "getLegendGradient" \notin ClassMethods THEN Throw(e, "TypeError")
    ELSE IF ~e.map.exists THEN Throw(e, "TypeError")
    ELSE Ok([e EXCEPT !.map.legends =
                        Append(@, LegendPanel(legend, colorScheme, valueRange))])

(***************************************************************************)
(* addWeatherData(config): the heat-map variant.                           *)
(***************************************************************************)
\* config.heat_map_config: { radius, opacity, intensity }, or undefined
HeatMapConfig == [defined |-> TRUE, radius |-> 20, opacity |-> 80, intensity |-> 1]
UndefinedHeatMapConfig == [defined |-> FALSE, radius |-> 0, opacity |-> 0, intensity |-> 0]

\* the data source is constructed and added first; the options of the layer
\* are evaluated before the layer is constructed, and
\* config.heat_map_config.radius on a config without heat_map_config is a
\* TypeError.  addWeatherPopups comes after addLegend.
addWeatherData(e, config) ==
    IF ~e.map.exists THEN Throw([e EXCEPT !.nextId = @ + 1], "TypeError")
    ELSE
      LET src == e.nextId
          e0 == [e EXCEPT !.nextId = @ + 1,
                          !.map.sources = Append(@, src)]
          layer == Layer(e0.nextId, "heatmap", src, "", <<>>,
                         config.heat_map_config.opacity,
                         getColorGradient(config.color_scheme, config.value_range))
          e1 == [e0 EXCEPT !.nextId = @ + 1,
                           !.map.layers = Append(@, layer),
                           !.this.heatMapLayer = layer.id]
      IN  IF ~config.heat_map_config.defined THEN Throw(e0, "TypeError")
          ELSE addLegend(e1, config.legend, config.color_scheme, config.value_range)

(***************************************************************************)
(* Responses handed to the renderer.  has_data says whether the payload    *)
(* sits under a data property (weatherResponse.data.map_config).           *)
(***************************************************************************)
\* a response without the data property is read no further than that
Responses(wd) ==
    [has_data : {TRUE}, overlay_url : Urls, weather_data : {wd}, map_config : MapConfigs]
    \cup
    [has_data : {FALSE}, overlay_url : {OverlayUrl}, weather_data : {wd},
     map_config : {CHOOSE c \in MapConfigs : c.data_points = <<>>}]

\* the well-formed responses without data points: the overlay, when they
\* carry one, is all they put on the map
OverlayResponses(wd) ==
    {r \in Responses(wd) :
       r.has_data /\ r.map_config.data_points = <<>>}

\* the body of the 'ready' callback of initializeWeatherMap, and the tail
\* of updateWeatherData
AddOverlayPointsLegend(e, response, sdk) ==
    LET config == response.map_config
        r1 == IF response.overlay_url # ""
              THEN addPNGOverlay(e, response.overlay_url, response.weather_data, sdk)
              ELSE Ok(e)
        r2 == Then(r1, LAMBDA x : addInteractivePoints(x, config))
    IN  Then(r2, LAMBDA x : addLegend(x, config.legend, config.color_scheme,
                                      config.value_range))

(***************************************************************************)
(* initializeWeatherMap(containerId, weatherResponse): constructs the map  *)
(* and registers the 'ready' callback.                                     *)
(***************************************************************************)
\* a 'ready' callback: the method that registered it, the argument its
\* closure holds, and whether its map is the one this.map names now
Handler(method, arg) == [method |-> method, arg |-> arg, own |-> TRUE]
Disown(handlers) == [i \in 1 .. Len(handlers) |-> [handlers[i] EXCEPT !.own = FALSE]]

\* this.map = new atlas.Map(...); this.map.events.add('ready', callback).
\* The map this.map named before is dropped by the renderer; a callback
\* still pending on it stays pending and will run on this.map as it is then.
NewMap(old, center, zoom, handler) ==
    [NullMap EXCEPT !.exists = TRUE,
                    !.camera.center = center,
                    !.camera.zoom = zoom,
                    !.readyHandlers = Append(Disown(old.readyHandlers), handler)]

initializeWeatherMap(e, response) ==
    IF ~response.has_data THEN Throw(e, "TypeError")
    ELSE
      LET config == response.map_config
      IN  Ok([e EXCEPT !.map = NewMap(e.map, config.center, config.zoom,
                                      Handler("initializeWeatherMap", response))])

(***************************************************************************)
(* updateWeatherData(weatherResponse).  absent is what map.layers.remove   *)
(* does when handed a layer the map does not hold: "ignored" or "throws".  *)
(***************************************************************************)
RemoveFromMap(e, id, absent) ==
    IF ~e.map.exists THEN Throw(e, "TypeError")
    ELSE IF id \notin LayerIds(e.map)
         THEN (IF absent = "throws" THEN Throw(e, "Error") ELSE Ok(e))
    ELSE Ok([e EXCEPT !.map.layers = RemoveLayer(@, id)])

ClearImageLayer(e, absent) ==
    IF e.this.imageLayer = 0 THEN Ok(e)
    ELSE Then(RemoveFromMap(e, e.this.imageLayer, absent),
              LAMBDA x : Ok([x EXCEPT !.this.imageLayer = 0]))

ClearPointLayer(e, absent) ==
    IF e.this.pointLayer = 0 THEN Ok(e)
    ELSE Then(RemoveFromMap(e, e.this.pointLayer, absent),
              LAMBDA x : Ok([x EXCEPT !.this.pointLayer = 0]))

ClearSourcesAndLegend(e) ==
    IF ~e.map.exists THEN Throw(e, "TypeError")
    ELSE Ok([e EXCEPT !.map.sources = <<>>,
                      !.map.legends = IF @ = <<>> THEN @ ELSE Tail(@)])

updateWeatherData(e, response, sdk, absent) ==
    LET r1 == ClearImageLayer(e, absent)
        r2 == Then(r1, LAMBDA x : ClearPointLayer(x, absent))
        r3 == Then(r2, LAMBDA x : ClearSourcesAndLegend(x))
        r4 == Then(r3, LAMBDA x : IF response.has_data THEN Ok(x)
                                  ELSE Throw(x, "TypeError"))
    IN  Then(r4, LAMBDA x : AddOverlayPointsLegend(x, response, sdk))


(***************************************************************************)
(* addDataSources(dataSources) and addLayers(layers): forEach over the     *)
(* configurations; nothing catches, so a throw ends the loop.  The field   *)
(* this.dataSources (a Map from configured id to DataSource) is the set of *)
(* its entries <<id, source>>.  A source or a layer handed to the map must *)
(* be an object: the SDK reads its id, which on undefined is a TypeError.  *)
(***************************************************************************)
MapSet(entries, key, value) == {p \in entries : p[1] # key} \cup {<<key, value>>}
\* a DataSource object: its identity and the positions of the points added
\* to it; NoSource stands for undefined
DataSource(id, data) == [id |-> id, data |-> data]
NoSource == DataSource(0, <<>>)
\* Map.prototype.get
MapGet(entries, key) ==
    IF \E p \in entries : p[1] = key
    THEN (CHOOSE p \in entries : p[1] = key)[2]
    ELSE NoSource

\* sourceConfig.data is a list of point positions [lon, lat]
SourceConfig(id, type, data) == [id |-> id, type |-> type, data |-> data]
LayerConfig(id, type, source) == [id |-> id, type |-> type, source |-> source]

RECURSIVE addDataSources(_, _)
addDataSources(e, dataSources) ==
    IF dataSources = <<>> THEN Ok(e)
    ELSE
      LET sourceConfig == Head(dataSources)
          dataSource == DataSource(e.nextId, sourceConfig.data)
      IN  IF sourceConfig.type # "geojson" THEN Throw(e, "TypeError")
          ELSE IF ~e.map.exists THEN Throw([e EXCEPT !.nextId = @ + 1], "TypeError")
          ELSE addDataSources(
                 [e EXCEPT !.nextId = @ + 1,
                           !.map.sources = Append(@, dataSource.id),
                           !.this.dataSources = MapSet(@, sourceConfig.id, dataSource)],
                 Tail(dataSources))

RECURSIVE addLayers(_, _)
addLayers(e, layers) ==
    IF layers = <<>> THEN Ok(e)
    ELSE
      LET layerConfig == Head(layers)
          source == MapGet(e.this.dataSources, layerConfig.source).id
          layer == Layer(e.nextId, layerConfig.type, source, "", <<>>, 0, <<>>)
          e1 == [e EXCEPT !.nextId = @ + 1]
      IN  IF layerConfig.type \notin {"symbol", "line", "polygon"}
          THEN addLayers(e, Tail(layers))
          ELSE IF ~e.map.exists \/ source = 0 THEN Throw(e1, "TypeError")
          ELSE addLayers([e1 EXCEPT !.map.layers = Append(@, layer)], Tail(layers))

(***************************************************************************)
(* updateMap(config): center is <<>> and zoom is 0 when the configuration  *)
(* leaves them out.                                                        *)
(***************************************************************************)
updateMap(e, config) ==
    IF ~e.map.exists THEN Throw(e, "TypeError")
    ELSE
      LET e1 == IF config.center # <<>>
                THEN [e EXCEPT !.map.camera.center = config.center] ELSE e
          e2 == IF config.zoom # 0
                THEN [e1 EXCEPT !.map.camera.zoom = config.zoom] ELSE e1
          e3 == [e2 EXCEPT !.map.layers = <<>>,
                           !.map.sources = <<>>,
                           !.this.dataSources = {}]
      IN  Then(addDataSources(e3, config.data_sources),
               LAMBDA x : addLayers(x, config.layers))

(***************************************************************************)
(* initializeMap(containerId, config): center defaults to [0, 0] and zoom  *)
(* to 10; the 'ready' callback adds the configured sources and layers.     *)
(***************************************************************************)
DefaultZoom == 10

initializeMap(e, config) ==
    Ok([e EXCEPT !.map = NewMap(e.map,
                                IF config.center # <<>> THEN config.center ELSE <<0, 0>>,
                                IF config.zoom # 0 THEN config.zoom ELSE DefaultZoom,
                                Handler("initializeMap", config))])

RemoveAt(seq, i) == SubSeq(seq, 1, i - 1) \o SubSeq(seq, i + 1, Len(seq))

\* a map fires 'ready': its callback, the i-th pending one, runs on the
\* renderer as it is now
OnReady(e, i, sdk) ==
    LET handler == e.map.readyHandlers[i]
        e1 == [e EXCEPT !.map.ready = @ \/ handler.own,
                        !.map.readyHandlers = RemoveAt(@, i)]
    IN  IF handler.method = "initializeWeatherMap"
        THEN AddOverlayPointsLegend(e1, handler.arg, sdk)
        ELSE Then(addDataSources(e1, handler.arg.data_sources),
                  LAMBDA x : addLayers(x, handler.arg.layers))

(***************************************************************************)
(* fitToData(): new atlas.data.BoundingBox.fromData(...) over the data of  *)
(* every source in this.dataSources, then this.map.setCamera({ bounds,     *)
(* padding: 50 }).  What `new` does with fromData depends on the build of  *)
(* the SDK, which is not part of the sources: where fromData is a static   *)
(* class method it is no constructor and the expression throws TypeError;  *)
(* where it is a plain function, `new` yields the box it returns, or, when *)
(* it returns no box (no position in the data), an empty object that is no *)
(* bounds array, which setCamera ignores or rejects.  The box is           *)
(* [west, south, east, north] around the positions.                        *)
(***************************************************************************)
SetMin(S) == CHOOSE x \in S : \A y \in S : x <= y
SetMax(S) == CHOOSE x \in S : \A y \in S : x >= y

PositionsOf(entries) ==
    UNION {{p[2].data[i] : i \in 1 .. Len(p[2].data)} : p \in entries}

FitSdkOutcomes(e) ==
    IF PositionsOf(e.this.dataSources) = {}
    THEN {"ok", "fromData throws", "setCamera throws"}
    ELSE {"ok", "fromData throws"}

fitToData(e, sdk) ==
    LET positions == PositionsOf(e.this.dataSources)
        lons == {q[1] : q \in positions}
        lats == {q[2] : q \in positions}
    IN  IF sdk = "fromData throws" \/ ~e.map.exists THEN Throw(e, "TypeError")
        ELSE IF sdk = "setCamera throws" THEN Throw(e, "Error")
        ELSE IF positions = {}
        THEN Ok([e EXCEPT !.map.camera.padding = 50])
        ELSE Ok([e EXCEPT !.map.camera.bounds =
                            <<SetMin(lons), SetMin(lats), SetMax(lons), SetMax(lats)>>,
                          !.map.camera.padding = 50])

(***************************************************************************)
(* searchLocation(query): an async method whose whole body is inside       *)
(* try { } catch { console.error }.  It returns to the event loop at       *)
(* await fetch and at await response.json() and reads nothing of the       *)
(* renderer before; the operator is the continuation that runs when the    *)
(* search has settled.  search is what came back: a rejected fetch or      *)
(* parse, a result without results, or a list of positions [lon, lat].     *)
(***************************************************************************)
SearchZoom == 15

FailedSearch == [failed |-> TRUE, has_results |-> FALSE, results |-> <<>>]
MissingResults == [failed |-> FALSE, has_results |-> FALSE, results |-> <<>>]
SearchResults(positions) == [failed |-> FALSE, has_results |-> TRUE, results |-> positions]
Searches ==
    {FailedSearch, MissingResults, SearchResults(<<>>), SearchResults(<< <<1, 0>> >>),
     SearchResults(<< <<-1, 1>>, <<1, 0>> >>)}

\* places the marker on the last result
searchLocationLastResult(e, search) ==
    IF search.failed \/ ~search.has_results \/ search.results = <<>> \/ ~e.map.exists
    THEN Ok(e)
    ELSE
      LET coordinates == search.results[Len(search.results)]
          dataSource == e.nextId
          layer == Layer(e.nextId + 1, "symbol", dataSource, "pin-red", <<coordinates>>,
                         0, <<>>)
      IN  Ok([e EXCEPT !.map.camera.center = coordinates,
                       !.map.camera.zoom = SearchZoom,
                       !.nextId = @ + 2,
                       !.map.sources = Append(@, dataSource),
                       !.map.layers = Append(@, layer)])

searchLocation(e, search) ==
    IF search.failed THEN Ok(e)
    ELSE IF ~search.has_results \/ search.results = <<>> THEN Ok(e)
    ELSE IF ~e.map.exists THEN Ok(e)
    ELSE
      LET coordinates == search.results[1]
          dataSource == e.nextId
          layer == Layer(e.nextId + 1, "symbol", dataSource, "pin-red", <<coordinates>>,
                         0, <<>>)
      IN  Ok([e EXCEPT !.map.camera.center = coordinates,
                       !.map.camera.zoom = SearchZoom,
                       !.nextId = @ + 2,
                       !.map.sources = Append(@, dataSource),
                       !.map.layers = Append(@, layer)])

(***************************************************************************)
(* The parsed results handleUserQuery receives from the backend.           *)
(***************************************************************************)
\* result.response.content: undefined, a string (its characters) or, from
\* a backend that does not keep to strings, a number
StringContent(chars) == [type |-> "string", chars |-> chars, num |-> 0]
NumberContent(n) == [type |-> "number", chars |-> <<>>, num |-> n]
UndefinedContent == [type |-> "undefined", chars |-> <<>>, num |-> 0]
ImageContent == StringContent(<<"h", "t", "t", "p", "s", ":", "/", "/", "b", "/", "i">>)
TextContent == StringContent(<<"R", "a", "i", "n", ".">>)
HtContent == StringContent(<<"h", "t", "m", "l">>)
EmptyContent == StringContent(<<>>)
Contents == {UndefinedContent, EmptyContent, ImageContent, TextContent, HtContent,
             NumberContent(7)}

\* JavaScript truthiness of a content value
Truthy(content) ==
    \/ content.type = "string" /\ content.chars # <<>>
    \/ content.type = "number" /\ content.num # 0

\* String.prototype.startsWith
startsWith(chars, prefix) ==
    /\ Len(chars) >= Len(prefix)
    /\ SubSeq(chars, 1, Len(prefix)) = prefix

Http == <<"h", "t", "t", "p">>

\* the parsed result of the backend.  has_response: result.response is
\* there; data_type "" stands for any other or no data_type;
\* has_weather_data: result.response.weather_data is there; has_data: the
\* payload sits under result.response.data
QueryConfigs ==
    {c \in MapConfigs : c.color_scheme = "temperature" /\ c.legend.defined
                        /\ c.data_points = <<>>}

QueryResults(wd) ==
    [has_response : {TRUE}, data_type : {"azure_maps_interactive"},
     content : {UndefinedContent, ImageContent},
     has_data : BOOLEAN, has_weather_data : BOOLEAN,
     overlay_url : {OverlayUrl}, weather_data : {wd}, map_config : QueryConfigs]
    \cup
    [has_response : {TRUE}, data_type : {""}, content : Contents,
     has_data : {FALSE}, has_weather_data : {FALSE},
     overlay_url : {""}, weather_data : {UndefinedWeatherData}, map_config : QueryConfigs]
    \cup
    [has_response : {FALSE}, data_type : {""}, content : {UndefinedContent},
     has_data : {FALSE}, has_weather_data : {FALSE},
     overlay_url : {""}, weather_data : {UndefinedWeatherData}, map_config : QueryConfigs]

NoResult == [has_response |-> FALSE, data_type |-> "", content |-> UndefinedContent,
             has_data |-> FALSE, has_weather_data |-> FALSE, overlay_url |-> "",
             weather_data |-> UndefinedWeatherData,
             map_config |-> CHOOSE c \in QueryConfigs : TRUE]

\* what a call of handleUserQuery got back: nothing yet, a rejected fetch
\* or parse, or a parsed result
Settled(q, how, result) == [query |-> q, settled |-> how, result |-> result]


(***************************************************************************)
(* State.                                                                  *)
(*   renderer     the fields of the AzureMapsRenderer object               *)
(*   map          the atlas.Map it owns (NullMap while this.map is null),  *)
(*                with the legends appended to its container               *)
(*   nextId       the id of the next object constructed                    *)
(*   weatherData  the weather_data payload of the run's responses          *)
(*   geoBounds    the bounds array the run hands to addGeoTIFFOverlay      *)
(*   lastCall     the last operation called on the renderer: its name,     *)
(*                the error that reached the caller, its legend arguments  *)
(*                and, for getColorGradient, the value returned, for       *)
(*                searchLocation what the search came back with            *)
(*   rendererLoaded   whether the page defines AzureMapsRenderer           *)
(*   queries      the calls of handleUserQuery, in the order they started: *)
(*                where each one stands (awaiting fetch, awaiting          *)
(*                response.json(), done)                                   *)
(*   resultContainer  the content of #result-container: what was rendered, *)
(*                for which call, and the status blocks appended since     *)
(*   timers       the pending setTimeout callbacks                         *)
(*   lastResult   what the call of handleUserQuery that settled last got   *)
(*                back from the backend                                    *)
(*   searches     the pending calls of searchLocation: where each one      *)
(*                stands (awaiting fetch, awaiting response.json())        *)
(***************************************************************************)
VARIABLES renderer, map, nextId, weatherData, geoBounds, lastCall,
          rendererLoaded, queries, resultContainer, timers, lastResult, searches

rvars == <<renderer, map, nextId, weatherData, geoBounds, lastCall, searches>>
qvars == <<rendererLoaded, queries, resultContainer, timers, lastResult>>
vars == <<renderer, map, nextId, weatherData, geoBounds, lastCall,
          rendererLoaded, queries, resultContainer, timers, lastResult, searches>>

Env == [this |-> renderer, map |-> map, nextId |-> nextId]

NoCall == [op |-> "none", thrown |-> "none", scheme |-> "", valueRange |-> <<>>,
           legend |-> FALSE, ret |-> <<>>, search |-> MissingResults]
Call(op, thrown) == [NoCall EXCEPT !.op = op, !.thrown = thrown]

\* the renderer and its map after an operation: the objects constructed
\* stay within the bound
Effect(res, call, cap) ==
    /\ res.env.nextId <= cap + 1
    /\ renderer' = res.env.this
    /\ map' = res.env.map
    /\ nextId' = res.env.nextId
    /\ lastCall' = [call EXCEPT !.thrown = res.thrown]
    /\ UNCHANGED <<weatherData, geoBounds>>
    /\ UNCHANGED qvars

\* the state after a synchronous method
Becomes(res, call, cap) == Effect(res, call, cap) /\ UNCHANGED searches

InitRenderer ==
    /\ renderer = NewEnv.this
    /\ map = NewEnv.map
    /\ nextId = NewEnv.nextId
    /\ lastCall = NoCall
    /\ searches = <<>>

EmptyContainer == [kind |-> "empty", query |-> 0, status |-> <<>>]

InitPage ==
    /\ queries = <<>>
    /\ resultContainer = EmptyContainer
    /\ timers = <<>>
    /\ lastResult = Settled(0, "none", NoResult)

\* a renderer may be initialised again, with or without a map of its own;
\* initialising constructs none of the objects that are counted
InitializeWeatherMap(pending, responses) ==
    /\ Len(map.readyHandlers) < pending
    /\ \E response \in responses :
         Becomes(initializeWeatherMap(Env, response), Call("initializeWeatherMap", "none"), nextId)

\* the SDK fires 'ready' once per map; an error of the callback is reported
\* by the event dispatcher
HandlerSdkOutcomes(handler) ==
    IF handler.method = "initializeWeatherMap"
    THEN LET wd == handler.arg.weather_data
         IN  SdkOutcomes(MathMin(wd.longitude), MathMin(wd.latitude),
                         MathMax(wd.longitude), MathMax(wd.latitude))
    ELSE {"ok"}

MapReady(cap) ==
    \E i \in 1 .. Len(map.readyHandlers) :
      \E sdk \in HandlerSdkOutcomes(map.readyHandlers[i]) :
        Becomes(OnReady(Env, i, sdk), Call("ready", "none"), cap)

WeatherSdkOutcomes ==
    SdkOutcomes(MathMin(weatherData.longitude), MathMin(weatherData.latitude),
                MathMax(weatherData.longitude), MathMax(weatherData.latitude))

AddPNGOverlay(cap) ==
    \E sdk \in WeatherSdkOutcomes :
         Becomes(addPNGOverlay(Env, OverlayUrl, weatherData, sdk), Call("addPNGOverlay", "none"),
                 cap)

AddGeoTIFFOverlay(cap) ==
    Becomes(addGeoTIFFOverlay(Env, GeoTiffUrl, geoBounds), Call("addGeoTIFFOverlay", "none"),
               cap)

AddInteractivePoints ==
    \E config \in MapConfigs :
         Becomes(addInteractivePoints(Env, config), Call("addInteractivePoints", "none"),
                 MaxObjects)

AddLegend ==
    \E legend \in {Legend, UndefinedLegend}, scheme \in LegendSchemes,
          range \in ValueRanges :
         Becomes(addLegend(Env, legend, scheme, range),
                 [Call("addLegend", "none") EXCEPT !.scheme = scheme, !.valueRange = range,
                                                   !.legend = legend.defined],
                 MaxObjects)

AddWeatherData ==
    \E config \in MapConfigs, heat \in {HeatMapConfig, UndefinedHeatMapConfig} :
         Becomes(addWeatherData(Env, config @@ [heat_map_config |-> heat]),
                 Call("addWeatherData", "none"), MaxObjects)

\* what map.layers.remove may do with a layer the map does not hold
AbsentOutcomes ==
    IF {renderer.imageLayer, renderer.pointLayer} \subseteq LayerIds(map) \cup {0}
    THEN {"ignored"}
    ELSE {"ignored", "throws"}

UpdateWeatherData ==
    \E response \in Responses(weatherData), sdk \in WeatherSdkOutcomes,
          absent \in AbsentOutcomes :
         Becomes(updateWeatherData(Env, response, sdk, absent),
                 Call("updateWeatherData", "none"), MaxObjects)

GetColorGradient ==
    /\ \E scheme \in Schemes, range \in ValueRanges :
         /\ lastCall' = [Call("getColorGradient", "none") EXCEPT
                             !.scheme = scheme,
                             !.ret = getColorGradient(scheme, range)]
         /\ UNCHANGED <<renderer, map, nextId, weatherData, geoBounds, searches>>
         /\ UNCHANGED qvars

\* configurations handed to addDataSources, addLayers and updateMap
DataSourceLists ==
    {<<>>, <<SourceConfig("s1", "geojson", << <<-1, 0>>, <<1, 1>> >>)>>,
     <<SourceConfig("s2", "vector", <<>>)>>}
LayerLists ==
    {<<>>, <<LayerConfig("l1", "symbol", "s1")>>, <<LayerConfig("l2", "line", "s9")>>,
     <<LayerConfig("l3", "circle", "s1")>>}
UpdateConfigs ==
    {[center |-> <<1, 0>>, zoom |-> 8,
      data_sources |-> <<SourceConfig("s1", "geojson", << <<0, 1>> >>)>>,
      layers |-> <<LayerConfig("l1", "symbol", "s1")>>],
     [center |-> <<>>, zoom |-> 0, data_sources |-> <<>>, layers |-> <<>>],
     [center |-> <<>>, zoom |-> 8, data_sources |-> <<SourceConfig("s2", "vector", <<>>)>>,
      layers |-> <<LayerConfig("l1", "symbol", "s2")>>]}

InitializeMap(pending) ==
    /\ Len(map.readyHandlers) < pending
    /\ \E config \in UpdateConfigs :
         Becomes(initializeMap(Env, config), Call("initializeMap", "none"), nextId)

AddDataSources ==
    \E dataSources \in DataSourceLists :
      Becomes(addDataSources(Env, dataSources), Call("addDataSources", "none"), MaxObjects)

AddLayers ==
    \E layers \in LayerLists :
      Becomes(addLayers(Env, layers), Call("addLayers", "none"), MaxObjects)

UpdateMap ==
    \E config \in UpdateConfigs :
      Becomes(updateMap(Env, config), Call("updateMap", "none"), MaxObjects)

FitToData ==
    \E sdk \in FitSdkOutcomes(Env) :
      Becomes(fitToData(Env, sdk), Call("fitToData", "none"), MaxObjects)

\* searchLocation is called: it issues the request and returns a promise
SearchLocation ==
    /\ Len(searches) < MaxSearches
    /\ searches' = Append(searches, "fetch")
    /\ lastCall' = Call("searchLocation", "none")
    /\ UNCHANGED <<renderer, map, nextId, weatherData, geoBounds>>
    /\ UNCHANGED qvars

\* the fetch of a search resolves: the call goes on to await response.json()
SearchFetchResolves ==
    \E i \in 1 .. Len(searches) :
      /\ searches[i] = "fetch"
      /\ searches' = [searches EXCEPT ![i] = "json"]
      /\ UNCHANGED <<renderer, map, nextId, weatherData, geoBounds, lastCall>>
      /\ UNCHANGED qvars

\* a search settles: its fetch or its parse rejects, or the parsed result
\* arrives; the rest of searchLocation runs on the map as it is now
SearchSettles ==
    \E i \in 1 .. Len(searches), search \in Searches :
      /\ search.failed \/ searches[i] = "json"
      /\ searches' = RemoveAt(searches, i)
      /\ Effect(searchLocation(Env, search),
                [Call("searchLocation settled", "none") EXCEPT !.search = search],
                MaxObjects)

\* bounds arrays [west, south, east, north] handed to addGeoTIFFOverlay
GeoBoundsSamples == {<<-1, 0, 1, 1>>}
AllGeoBounds == [1 .. 4 -> Coord]

(***************************************************************************)
(* Spec: the renderer driven through every public method that changes its  *)
(* state, on the payload of SpecSamples.  The other specifications drive   *)
(* it through some of the methods, on more payloads.                       *)
(***************************************************************************)
Init ==
    /\ InitRenderer
    /\ InitPage
    /\ rendererLoaded = TRUE
    /\ weatherData \in SpecSamples
    /\ geoBounds \in GeoBoundsSamples

InitSamples ==
    /\ InitRenderer
    /\ InitPage
    /\ rendererLoaded = TRUE
    /\ weatherData \in WeatherSamples
    /\ geoBounds \in GeoBoundsSamples

Next ==
    \/ InitializeWeatherMap(MaxPending, Responses(weatherData))
    \/ MapReady(MaxObjects)
    \/ AddPNGOverlay(MaxObjects)
    \/ AddGeoTIFFOverlay(MaxObjects)
    \/ AddInteractivePoints
    \/ AddLegend
    \/ AddWeatherData
    \/ UpdateWeatherData
    \/ GetColorGradient
    \/ InitializeMap(MaxPending)
    \/ AddDataSources
    \/ AddLayers
    \/ UpdateMap
    \/ FitToData
    \/ SearchLocation
    \/ SearchFetchResolves
    \/ SearchSettles

Spec == Init /\ [][Next]_vars

(***************************************************************************)
(* SpecLayers: the operations that add and remove data sources and the     *)
(* layers built on them.                                                   *)
(***************************************************************************)
NextLayers ==
    \/ InitializeMap(MaxPending)
    \/ MapReady(MaxObjects)
    \/ AddDataSources
    \/ AddLayers
    \/ AddInteractivePoints
    \/ AddWeatherData
    \/ SearchLocation
    \/ SearchFetchResolves
    \/ SearchSettles
    \/ UpdateWeatherData
    \/ UpdateMap

SpecLayers == InitSamples /\ [][NextLayers]_vars

(***************************************************************************)
(* SpecInit: a renderer initialised, and initialised again while the       *)
(* 'ready' callback of an earlier map is still pending.                    *)
(***************************************************************************)
NextInit ==
    \/ InitializeWeatherMap(MaxOverlap, Responses(weatherData))
    \/ InitializeMap(MaxOverlap)
    \/ MapReady(MaxReadyObjects)
    \/ AddGeoTIFFOverlay(MaxReadyObjects)

SpecInit == InitSamples /\ [][NextInit]_vars

(***************************************************************************)
(* SpecGradient: getColorGradient on every scheme name of the sample, and  *)
(* the heat map that is colored by it.                                     *)
(***************************************************************************)
NextGradient ==
    \/ GetColorGradient
    \/ InitializeMap(MaxPending)
    \/ MapReady(MaxObjects)
    \/ AddWeatherData

SpecGradient == InitSamples /\ [][NextGradient]_vars

(***************************************************************************)
(* SpecSearch: searches on a renderer whose map is made, fires 'ready' and *)
(* is updated while they are pending.                                      *)
(***************************************************************************)
NextSearch ==
    \/ InitializeMap(MaxPending)
    \/ MapReady(MaxObjects)
    \/ UpdateMap
    \/ FitToData
    \/ SearchLocation
    \/ SearchFetchResolves
    \/ SearchSettles

SpecSearch == InitSamples /\ [][NextSearch]_vars

(***************************************************************************)
(* SpecUpdate: a renderer whose map is ready and still empty (initialised  *)
(* from a response without overlay and without points), driven through the *)
(* operations that set and clear the fields imageLayer and pointLayer.     *)
(***************************************************************************)
InitUpdate ==
    /\ InitPage
    /\ rendererLoaded = TRUE
    /\ weatherData \in WeatherSamples
    /\ geoBounds \in GeoBoundsSamples
    /\ \E response \in Responses(weatherData) :
         /\ response.has_data
         /\ response.overlay_url = ""
         /\ response.map_config.data_points = <<>>
         /\ response.map_config.legend.defined
         /\ LET res == OnReady(initializeWeatherMap(NewEnv, response).env, 1, "ok")
            IN  /\ renderer = res.env.this
                /\ map = res.env.map
                /\ nextId = res.env.nextId
                /\ lastCall = Call("ready", res.thrown)
                /\ searches = <<>>

NextUpdate ==
    \/ AddPNGOverlay(MaxObjects)
    \/ AddGeoTIFFOverlay(MaxObjects)
    \/ AddInteractivePoints
    \/ UpdateWeatherData
    \/ UpdateMap

SpecUpdate == InitUpdate /\ [][NextUpdate]_vars

(***************************************************************************)
(* SpecBounds: the PNG overlay on every weather_data payload within the    *)
(* bounds.                                                                 *)
(***************************************************************************)
InitBounds ==
    /\ InitRenderer
    /\ InitPage
    /\ rendererLoaded = TRUE
    /\ weatherData \in AllWeatherData
    /\ geoBounds \in GeoBoundsSamples

NextBounds ==
    \/ InitializeWeatherMap(MaxPending, OverlayResponses(weatherData))
    \/ MapReady(MaxOverlays)
    \/ AddPNGOverlay(MaxOverlays)

SpecBounds == InitBounds /\ [][NextBounds]_vars

(***************************************************************************)
(* SpecCorners: both overlays, the GeoTIFF overlay on every bounds array   *)
(* within the bounds.                                                      *)
(***************************************************************************)
InitCorners ==
    /\ InitRenderer
    /\ InitPage
    /\ rendererLoaded = TRUE
    /\ weatherData \in WeatherSamples
    /\ geoBounds \in AllGeoBounds

NextCorners ==
    \/ InitializeWeatherMap(MaxPending, OverlayResponses(weatherData))
    \/ MapReady(MaxOverlays)
    \/ AddPNGOverlay(MaxOverlays)
    \/ AddGeoTIFFOverlay(MaxOverlays)

SpecCorners == InitCorners /\ [][NextCorners]_vars


(***************************************************************************)
(* handleUserQuery.  One call is three steps: up to the fetch, from the    *)
(* settled fetch to response.json(), and from the parsed result to the     *)
(* end.  Nothing ties a response to the call that is current when it       *)
(* arrives: each continuation writes #result-container.                    *)
(***************************************************************************)
Container(kind, q) == [kind |-> kind, query |-> q, status |-> <<>>]

StartQuery ==
    /\ Len(queries) < MaxQueries
    /\ queries' = Append(queries, "fetch")
    /\ UNCHANGED <<rvars, rendererLoaded, resultContainer, timers, lastResult>>

\* the fetch resolves: the call goes on to await response.json()
FetchResolves ==
    \E q \in 1 .. Len(queries) :
      /\ queries[q] = "fetch"
      /\ queries' = [queries EXCEPT ![q] = "json"]
      /\ UNCHANGED <<rvars, rendererLoaded, resultContainer, timers, lastResult>>

\* the fetch or the parse rejects: the catch block renders the error
RequestFails ==
    \E q \in 1 .. Len(queries) :
      /\ queries[q] \in {"fetch", "json"}
      /\ queries' = [queries EXCEPT ![q] = "done"]
      /\ resultContainer' = Container("error", q)
      /\ lastResult' = Settled(q, "rejected", NoResult)
      /\ UNCHANGED <<rvars, rendererLoaded, timers>>

\* the content branch (lines 53-63): startsWith on a value that is no
\* string is a TypeError, rendered by the catch block
RenderContent(q, content) ==
    /\ resultContainer' =
         Container(IF content.type # "string" THEN "error"
                   ELSE IF startsWith(content.chars, Http) THEN "image"
                   ELSE "text", q)
    /\ UNCHANGED <<rvars, timers>>

\* the map branch (lines 17-51) with a loaded renderer
RenderMap(q, result) ==
    LET res == initializeWeatherMap(NewEnv, result)
    IN  /\ renderer' = res.env.this
        /\ map' = res.env.map
        /\ nextId' = res.env.nextId
        /\ lastCall' = Call("initializeWeatherMap", res.thrown)
        /\ UNCHANGED <<weatherData, geoBounds, searches>>
        /\ IF res.thrown # "none"
           THEN /\ resultContainer' = Container("error", q)
                /\ UNCHANGED timers
           ELSE /\ resultContainer' = Container("map", q)
                /\ timers' = Append(timers, [query |-> q,
                                             has_weather_data |->
                                                 result.has_weather_data])

\* a rendering that looks at the content before the data_type
RenderResultContentFirst(q, result) ==
    IF result.has_response /\ Truthy(result.content)
    THEN RenderContent(q, result.content)
    ELSE IF result.has_response /\ result.data_type = "azure_maps_interactive"
    THEN IF ~rendererLoaded
         THEN /\ resultContainer' = Container("not-loaded", q)
              /\ UNCHANGED <<rvars, timers>>
         ELSE RenderMap(q, result)
    ELSE /\ resultContainer' = Container("unexpected", q)
         /\ UNCHANGED <<rvars, timers>>

\* the parsed result arrives: the rest of the try block runs
RenderResult(q, result) ==
    IF result.has_response /\ result.data_type = "azure_maps_interactive"
    THEN IF ~rendererLoaded
         THEN /\ resultContainer' = Container("not-loaded", q)
              /\ UNCHANGED <<rvars, timers>>
         ELSE RenderMap(q, result)
    ELSE IF result.has_response /\ Truthy(result.content)
    THEN RenderContent(q, result.content)
    ELSE /\ resultContainer' = Container("unexpected", q)
         /\ UNCHANGED <<rvars, timers>>

ResultArrives ==
    \E q \in 1 .. Len(queries) :
      /\ queries[q] = "json"
      /\ queries' = [queries EXCEPT ![q] = "done"]
      /\ UNCHANGED rendererLoaded
      /\ \E result \in QueryResults(weatherData) :
           /\ lastResult' = Settled(q, "parsed", result)
           /\ RenderResult(q, result)

\* a 2-second timer fires.  The callback builds the status block, reading
\* result.response.weather_data.longitude.length (a TypeError when the
\* response has no weather_data, which nothing catches), and appends it to
\* whatever #result-container holds now
TimerFires ==
    /\ timers # <<>>
    /\ timers' = Tail(timers)
    /\ resultContainer' =
         IF Head(timers).has_weather_data
         THEN [resultContainer EXCEPT !.status = Append(@, Head(timers).query)]
         ELSE resultContainer
    /\ lastCall' = Call("statusTimer",
                        IF Head(timers).has_weather_data THEN "none" ELSE "TypeError")
    /\ UNCHANGED <<renderer, map, nextId, weatherData, geoBounds, searches>>
    /\ UNCHANGED <<rendererLoaded, queries, lastResult>>

InitQuery ==
    /\ InitRenderer
    /\ InitPage
    /\ rendererLoaded \in BOOLEAN
    /\ weatherData \in WeatherSamples
    /\ geoBounds \in GeoBoundsSamples

NextQuery ==
    \/ StartQuery
    \/ FetchResolves
    \/ RequestFails
    \/ ResultArrives
    \/ TimerFires
    \/ MapReady(MaxObjects)

SpecQuery == InitQuery /\ [][NextQuery]_vars


(***************************************************************************)
(* Properties.                                                             *)
(***************************************************************************)
Lons == weatherData.longitude
Lats == weatherData.latitude
NonEmptyPoints == weatherData.defined /\ Lons # <<>> /\ Lats # <<>>
EmptyPoints == weatherData.defined /\ Lons = <<>> /\ Lats = <<>>

IsMinOf(v, xs) == (\E i \in 1 .. Len(xs) : xs[i] = v) /\ (\A i \in 1 .. Len(xs) : v <= xs[i])
IsMaxOf(v, xs) == (\E i \in 1 .. Len(xs) : xs[i] = v) /\ (\A i \in 1 .. Len(xs) : v >= xs[i])

MapLayers == {map.layers[i] : i \in 1 .. Len(map.layers)}
PNGLayers == {l \in MapLayers : l.type = "image" /\ l.url = OverlayUrl}
GeoTIFFLayers == {l \in MapLayers : l.type = "image" /\ l.url = GeoTiffUrl}

\* the overlay was placed by the last step, on a map that is ready
JustPlacedPNG ==
    /\ lastCall.op \in {"addPNGOverlay", "ready"}
    /\ map.ready
    /\ PNGLayers # {}

\* C1: for every non-empty set of sample points, the bounds of the PNG
\* overlay (its corners, and the camera bounds set with it) are west = the
\* least longitude, east = the greatest longitude, south = the least
\* latitude and north = the greatest latitude of the set.
C1_BoundsAreMinMax ==
    NonEmptyPoints =>
      /\ \A l \in PNGLayers :
           /\ IsMinOf(l.coordinates[1][1], Lons)
           /\ IsMaxOf(l.coordinates[1][2], Lats)
           /\ IsMaxOf(l.coordinates[3][1], Lons)
           /\ IsMinOf(l.coordinates[3][2], Lats)
      /\ JustPlacedPNG =>
           /\ Len(map.camera.bounds) = 4
           /\ IsMinOf(map.camera.bounds[1], Lons)
           /\ IsMinOf(map.camera.bounds[2], Lats)
           /\ IsMaxOf(map.camera.bounds[3], Lons)
           /\ IsMaxOf(map.camera.bounds[4], Lats)

\* an overlay placed from two points whose first longitude is not the least
C1_Witness ==
    /\ JustPlacedPNG
    /\ Len(Lons) = 2 /\ Lons[1] > Lons[2]
    /\ Len(Lats) = 2 /\ Lats[1] < Lats[2]

\* C2: an image layer always has exactly 4 corners, in the order
\* (west,north), (east,north), (east,south), (west,south): for the PNG
\* overlay with the bounds of the points, for the GeoTIFF overlay with the
\* bounds array [west, south, east, north] it was given.
FourCorners(c) ==
    /\ Len(c) = 4
    /\ \A i \in 1 .. 4 : Len(c[i]) = 2
    /\ c[1][2] = c[2][2]
    /\ c[3][2] = c[4][2]
    /\ c[1][1] = c[4][1]
    /\ c[2][1] = c[3][1]

C2_CornerOrder ==
    /\ \A l \in PNGLayers :
         /\ FourCorners(l.coordinates)
         /\ l.coordinates[1] = <<MathMin(Lons), MathMax(Lats)>>
         /\ l.coordinates[3] = <<MathMax(Lons), MathMin(Lats)>>
    /\ \A l \in GeoTIFFLayers :
         /\ FourCorners(l.coordinates)
         /\ l.coordinates[1] = <<geoBounds[1], geoBounds[4]>>
         /\ l.coordinates[3] = <<geoBounds[3], geoBounds[2]>>

\* a GeoTIFF overlay placed from bounds whose four numbers tell the corners apart
C2_Witness ==
    /\ lastCall.op = "addGeoTIFFOverlay"
    /\ GeoTIFFLayers # {}
    /\ geoBounds[1] < geoBounds[3]
    /\ geoBounds[2] < geoBounds[4]

\* C3 (as claimed): addPNGOverlay over zero sample points fails with
\* EmptyInputError, which reaches the caller, and renders nothing: no image
\* layer is created or added and the camera is not moved.
C3_EmptyInputFails ==
    (lastCall.op = "addPNGOverlay" /\ EmptyPoints /\ map.ready) =>
      /\ lastCall.thrown = "EmptyInputError"
      /\ renderer.imageLayer = 0
      /\ PNGLayers = {}
      /\ map.camera.bounds = <<>>

\* C4 (as claimed): after any sequence of renderer operations the map holds
\* at most one image overlay layer and its container at most one legend.
C4_AtMostOneOverlayAndLegend ==
    /\ Cardinality(ImageLayersOf(map)) <= 1
    /\ Len(map.legends) <= 1

\* C5 (as claimed): once every started call of handleUserQuery has
\* finished, the result container shows the result of the call started last.
AllQueriesDone == queries # <<>> /\ \A q \in 1 .. Len(queries) : queries[q] = "done"

C5_LastQueryWins == AllQueriesDone => resultContainer.query = Len(queries)

\* C6: getColorGradient returns a gradient for every scheme name, and for
\* every name other than temperature, precipitation and drought exactly the
\* default gradient (0: transparent blue, 0.5: green, 1: red).
C6_GradientTotalWithDefault ==
    lastCall.op = "getColorGradient" =>
      /\ lastCall.thrown = "none"
      /\ Len(lastCall.ret) > 3
      /\ lastCall.scheme \notin {"temperature", "precipitation", "drought"} =>
           /\ SubSeq(lastCall.ret, 1, 3) = <<"interpolate", <<"linear">>, <<"heatmap-density">> >>
           /\ Stops(lastCall.ret) = << <<0, "rgba(0, 0, 255, 0)">>,
                                       <<50, "rgba(0, 255, 0, 1)">>,
                                       <<100, "rgba(255, 0, 0, 1)">> >>

\* the lookup was made with a name that is no scheme
C6_Witness ==
    /\ lastCall.op = "getColorGradient"
    /\ lastCall.scheme \in {"unknown-scheme-xyz", "undefined"}
    /\ lastCall.ret # <<>>

\* C7: every gradient getColorGradient returns is a non-empty sequence of
\* (stop, color) pairs whose stops lie in [0,1], strictly increase, start at
\* 0 and end at 1 (stops in hundredths: 0 .. 100).
C7_StopsOrdered ==
    lastCall.op = "getColorGradient" =>
      LET st == Stops(lastCall.ret)
      IN  /\ Len(st) >= 1
          /\ Len(lastCall.ret) = 3 + 2 * Len(st)
          /\ \A i \in 1 .. Len(st) : st[i][1] \in 0 .. 100
          /\ \A i \in 1 .. Len(st) - 1 : st[i][1] < st[i + 1][1]
          /\ st[1][1] = 0
          /\ st[Len(st)][1] = 100

\* the six-stop temperature table was returned
C7_Witness ==
    /\ lastCall.op = "getColorGradient"
    /\ lastCall.scheme = "temperature"
    /\ Len(Stops(lastCall.ret)) = 6

\* C8 (as claimed): rendering a legend for any scheme name succeeds and its
\* swatch is the (stop, color) sequence getColorGradient returns for the
\* scheme.
C8_LegendUsesGradient ==
    (lastCall.op = "addLegend" /\ lastCall.legend /\ map.ready) =>
      /\ lastCall.thrown = "none"
      /\ map.legends # <<>>
      /\ map.legends[Len(map.legends)].swatch =
           Stops(getColorGradient(lastCall.scheme, lastCall.valueRange))

\* C9 (as claimed): a legend whose value range is inverted fails with
\* InvalidRangeError and no legend panel is added.
C9_InvertedRangeFails ==
    (/\ lastCall.op = "addLegend" /\ lastCall.legend /\ map.ready
     /\ lastCall.valueRange[1] > lastCall.valueRange[2]) =>
      /\ lastCall.thrown = "InvalidRangeError"
      /\ map.legends = <<>>

\* C10: for every non-empty set of sample points the bounds of the overlay
\* satisfy west <= east and south <= north.
C10_BoundsOrdered ==
    NonEmptyPoints =>
      /\ \A l \in PNGLayers :
           /\ l.coordinates[1][1] <= l.coordinates[2][1]
           /\ l.coordinates[3][2] <= l.coordinates[1][2]
      /\ JustPlacedPNG =>
           /\ map.camera.bounds[1] <= map.camera.bounds[3]
           /\ map.camera.bounds[2] <= map.camera.bounds[4]

\* an overlay placed over points that differ in both coordinates
C10_Witness ==
    /\ JustPlacedPNG
    /\ lastCall.op = "addPNGOverlay"
    /\ NonEmptyPoints
    /\ Len(map.camera.bounds) = 4
    /\ map.camera.bounds[1] < map.camera.bounds[3]
    /\ map.camera.bounds[2] < map.camera.bounds[4]

\* C11: a degenerate point set is placed like any other.  For a single
\* point, and for points on one meridian (one parallel), the overlay has
\* west = east (south = north), still four corners in the order
\* (west,north), (east,north), (east,south), (west,south), and addPNGOverlay
\* on a ready map ends without an error, with its image layer on the map.
AllEqual(xs) == \A i, j \in 1 .. Len(xs) : xs[i] = xs[j]

C11_DegenerateStillPlaced ==
    NonEmptyPoints =>
      /\ \A l \in PNGLayers :
           /\ FourCorners(l.coordinates)
           /\ AllEqual(Lons) => l.coordinates[1][1] = l.coordinates[2][1]
           /\ AllEqual(Lats) => l.coordinates[1][2] = l.coordinates[3][2]
      /\ (lastCall.op = "addPNGOverlay" /\ map.ready) =>
           /\ lastCall.thrown = "none"
           /\ renderer.imageLayer # 0
           /\ \E l \in PNGLayers : l.id = renderer.imageLayer
           /\ Len(map.camera.bounds) = 4
           /\ AllEqual(Lons) => map.camera.bounds[1] = map.camera.bounds[3]
           /\ AllEqual(Lats) => map.camera.bounds[2] = map.camera.bounds[4]

\* an overlay placed from one point: its four corners coincide
C11_Witness ==
    /\ lastCall.op = "addPNGOverlay"
    /\ map.ready
    /\ Len(Lons) = 1 /\ Len(Lats) = 1
    /\ \E l \in PNGLayers :
         /\ l.id = renderer.imageLayer
         /\ \A i \in 1 .. 4 : l.coordinates[i] = <<Lons[1], Lats[1]>>

\* C12 (as claimed): a legend built from a range (min, max) with min <= max
\* is rendered with exactly two labels, min and max each to one decimal
\* place, min first; the range (0, 45) with scheme precipitation gives the
\* labels "0.0" and "45.0".
C12_LegendLabels ==
    (/\ lastCall.op = "addLegend" /\ lastCall.legend /\ map.ready
     /\ lastCall.valueRange[1] <= lastCall.valueRange[2]) =>
      /\ lastCall.thrown = "none"
      /\ map.legends # <<>>
      /\ LET labels == map.legends[Len(map.legends)].labels
         IN  /\ Len(labels) = 2
             /\ labels[1] = toFixed1(lastCall.valueRange[1])
             /\ labels[2] = toFixed1(lastCall.valueRange[2])
             /\ (lastCall.valueRange = <<0, 45>> /\ lastCall.scheme = "precipitation") =>
                  labels = <<"0.0", "45.0">>

\* C13 (as claimed): for a response of the documented shape
\* { response: { data_type: 'azure_maps_interactive', overlay_url,
\* weather_data: { longitude, latitude }, map_config } }, handleUserQuery
\* hands result.response to initializeWeatherMap, the map is initialised
\* from map_config, the overlay is placed at the bounds of weather_data
\* once the map is ready, and the call does not end in the error branch.
DocumentedShape(result) ==
    /\ result.has_response
    /\ result.data_type = "azure_maps_interactive"
    /\ result.has_weather_data
    /\ ~result.has_data

C13_DocumentedShapeRenders ==
    (/\ lastResult.settled = "parsed"
     /\ DocumentedShape(lastResult.result)
     /\ rendererLoaded) =>
      LET r == lastResult.result
          b == ComputeBounds(r.weather_data.longitude, r.weather_data.latitude)
      IN  /\ resultContainer.kind = "map"
          /\ resultContainer.query = lastResult.query
          /\ lastCall.thrown = "none"
          /\ map.exists
          /\ map.camera.center = r.map_config.center
          /\ map.camera.zoom = r.map_config.zoom
          /\ (map.ready /\ NonEmptyPoints) =>
               \E l \in PNGLayers :
                 l.coordinates = Corners(b.west, b.south, b.east, b.north)

\* C14 (as claimed): initializeWeatherMap itself adds nothing to the map:
\* the new map is empty until it fires 'ready' (so nothing is ever added if
\* it never fires); the step in which its 'ready' callback runs adds, in
\* this order, the PNG overlay (only when overlay_url is present), the
\* interactive points and the legend.
LayerTypes(m) == [i \in 1 .. Len(m.layers) |-> m.layers[i].type]

ExpectedOnReady(response) ==
    (IF response.overlay_url # "" /\ response.weather_data.defined
     THEN <<"image">> ELSE <<>>)
    \o (IF response.map_config.data_points # <<>> THEN <<"symbol">> ELSE <<>>)

\* the 'ready' callback of the map that initializeWeatherMap made last
OwnWeatherHandler(m) ==
    /\ m.readyHandlers # <<>>
    /\ m.readyHandlers[Len(m.readyHandlers)].own
    /\ m.readyHandlers[Len(m.readyHandlers)].method = "initializeWeatherMap"

C14_ReadyAddsInOrder ==
    [][/\ (lastCall'.op = "initializeWeatherMap" /\ lastCall'.thrown = "none") =>
            /\ OwnWeatherHandler(map')
            /\ ~map'.ready
            /\ map'.layers = <<>> /\ map'.sources = <<>> /\ map'.legends = <<>>
       /\ (OwnWeatherHandler(map) /\ lastCall'.op = "ready" /\ map'.ready) =>
            LET response == map.readyHandlers[Len(map.readyHandlers)].arg
            IN  /\ LayerTypes(map') = LayerTypes(map) \o ExpectedOnReady(response)
                /\ response.map_config.legend.defined =>
                     /\ Len(map'.legends) = Len(map.legends) + 1
                     /\ lastCall'.thrown = "none"]_vars

\* C15: when a call of handleUserQuery ends, #result-container holds exactly
\* one outcome, chosen by priority: (1) data_type 'azure_maps_interactive'
\* gives the map container, or the 'frontend not loaded' error when
\* AzureMapsRenderer is undefined; (2) content starting with 'http' gives an
\* image; (3) other non-empty content gives a text paragraph; (4) anything
\* else gives 'Unexpected response format'; an exception of the fetch, of
\* the parse or of the rendering gives 'Error: <message>' instead.
IsMapResponse(result) == result.has_response /\ result.data_type = "azure_maps_interactive"

ExpectedOutcome(s) ==
    IF s.settled = "rejected" THEN "error"
    ELSE IF IsMapResponse(s.result)
    THEN (IF ~rendererLoaded THEN "not-loaded"
          ELSE IF initializeWeatherMap(NewEnv, s.result).thrown # "none" THEN "error"
          ELSE "map")
    ELSE IF s.result.has_response /\ s.result.content.type = "string"
            /\ s.result.content.chars # <<>>
    THEN (IF SubSeq(s.result.content.chars, 1, 4) = <<"h", "t", "t", "p">>
          THEN "image" ELSE "text")
    ELSE IF s.result.has_response /\ Truthy(s.result.content) THEN "error"
    ELSE "unexpected"

C15_OneOutcomeByPriority ==
    lastResult.settled # "none" =>
      /\ queries[lastResult.query] = "done"
      /\ resultContainer.query = lastResult.query
      /\ resultContainer.kind = ExpectedOutcome(lastResult)
      /\ resultContainer.kind \in {"map", "not-loaded", "image", "text", "unexpected", "error"}

\* a map response that also carries an image url as content was rendered
\* as a map
C15_Witness ==
    /\ lastResult.settled = "parsed"
    /\ IsMapResponse(lastResult.result)
    /\ lastResult.result.content = ImageContent
    /\ resultContainer.kind = "map"
    /\ resultContainer.query = lastResult.query

\* C19 (as claimed): the status block a map response schedules is appended
\* only to the result of the call that scheduled it: when a later call has
\* replaced the container before the timer fires, the block of the earlier
\* call is not appended to the later result; and the timer callback never
\* fails, also for a response without weather_data.
StatusOnOwnResult ==
    \A i \in 1 .. Len(resultContainer.status) :
      resultContainer.status[i] = resultContainer.query

TimerNeverFails == lastCall.op = "statusTimer" => lastCall.thrown = "none"

C19_StatusOnlyOnOwnResult == StatusOnOwnResult /\ TimerNeverFails

\* C16: when the search comes back with a non-empty result list,
\* searchLocation centers the map on the first result with zoom 15 and adds
\* exactly one marker: one data source and one symbol layer over it.  When
\* the list is empty or missing, or the request fails, the camera, the
\* sources and the layers of the map stay as they were.  In no case does an
\* error reach the caller; the call itself and the resolved fetch change
\* nothing.
C16_SearchCentersAndMarks ==
    [][/\ Len(searches') > Len(searches) =>
            (map' = map /\ renderer' = renderer /\ lastCall'.thrown = "none")
       /\ (Len(searches') = Len(searches) /\ searches' # searches) =>
            (map' = map /\ renderer' = renderer /\ lastCall' = lastCall)
       /\ Len(searches') < Len(searches) =>
            LET search == lastCall'.search
            IN  /\ lastCall'.op = "searchLocation settled"
                /\ lastCall'.thrown = "none"
                /\ IF ~search.failed /\ search.has_results /\ search.results # <<>>
                      /\ map.exists
                   THEN /\ map'.camera.center = search.results[1]
                        /\ map'.camera.zoom = 15
                        /\ Len(map'.sources) = Len(map.sources) + 1
                        /\ SubSeq(map'.sources, 1, Len(map.sources)) = map.sources
                        /\ Len(map'.layers) = Len(map.layers) + 1
                        /\ SubSeq(map'.layers, 1, Len(map.layers)) = map.layers
                        /\ LET marker == map'.layers[Len(map'.layers)]
                           IN  /\ marker.type = "symbol"
                               /\ marker.source = map'.sources[Len(map'.sources)]
                               /\ marker.source \notin
                                    {map.sources[i] : i \in 1 .. Len(map.sources)}
                               /\ marker.id \notin LayerIds(map)
                   ELSE /\ map'.camera = map.camera
                        /\ map'.sources = map.sources
                        /\ map'.layers = map.layers]_vars

\* a search with two results has put its marker on the first of them
C16_Witness ==
    /\ lastCall.op = "searchLocation settled"
    /\ Len(lastCall.search.results) = 2
    /\ map.ready
    /\ map.camera.center = lastCall.search.results[1]
    /\ map.camera.zoom = 15
    /\ map.layers # <<>>
    /\ map.layers[Len(map.layers)].url = "pin-red"

\* C17 (as claimed): after any sequence of addPNGOverlay, addGeoTIFFOverlay,
\* addInteractivePoints, updateWeatherData and updateMap on a ready map, the
\* field imageLayer (pointLayer) is non-null exactly when the layer it names
\* is among the layers of the map; so updateWeatherData never asks the map
\* to remove a layer the map no longer holds.
C17_FieldsNameMapLayers ==
    map.ready =>
      /\ renderer.imageLayer # 0 =>
           \E l \in MapLayers : l.id = renderer.imageLayer /\ l.type = "image"
      /\ renderer.pointLayer # 0 =>
           \E l \in MapLayers : l.id = renderer.pointLayer /\ l.type = "symbol"

\* C18 (as claimed): after any sequence of addDataSources, addLayers,
\* addInteractivePoints, addWeatherData, searchLocation, updateWeatherData
\* and updateMap, every layer on the map that draws a data source is backed
\* by a defined source that is among the sources of the map: no layer
\* outlives its source and none is built on an id that was never registered.
MapSources == {map.sources[i] : i \in 1 .. Len(map.sources)}

C18_LayersBackedBySources ==
    \A l \in MapLayers :
      l.type # "image" => (l.source # 0 /\ l.source \in MapSources)

=============================================================================
